---- MODULE Spec2Model ----
(***************************************************************************)
(* Live fan-out subsystem of the Frontier Tower gateway                    *)
(* (api/websocket.py): the ConnectionManager registry, the per-connection  *)
(* WebSocket handlers and the Redis listener ("Bridge") that turns bus     *)
(* messages into broadcasts.                                               *)
(*                                                                         *)
(* All tasks run on one asyncio event loop, so a step of the model is the  *)
(* code between two awaits of one task: it is atomic, and other tasks run  *)
(* only while a task is suspended in an await (accept, send_text,          *)
(* receive_text, pubsub.listen).                                           *)
(***************************************************************************)
EXTENDS Integers, Sequences, FiniteSets, TLC

\* ------------------------------------------------------------------ bounds
MaxConns == 2        \* WebSocket objects that exist during one run
MaxMsgs == 2         \* data messages published on the bus during one run
NumChannels == 2     \* how many of the six known channels the run uses
MaxTasks == 2        \* HTTP request tasks that run at the same time
MaxRequests == 2     \* HTTP requests the handlers get during one run
MaxCalls == 3        \* check_rate_limit calls of one run on one backend
MaxEvents == 2       \* live events the Store returns for one floor

\* --------------------------------------------------------------- constants
\* websocket.py:52-59, the keys of ConnectionManager.active_connections
\* (the same six names the listener subscribes to, websocket.py:228-235).
KnownChannels ==
    << "tower-ai-feed", "floor-pulse-9", "floor-pulse-2",
       "floor-pulse-4", "floor-pulse-15", "floor-pulse-16" >>

Channels == { KnownChannels[i] : i \in 1..NumChannels }

\* A channel name a client may ask for that the manager does not know.
UnknownChannel == "floor-pulse-99"

\* channel.startswith("floor-pulse-"), websocket.py:150, on the names above.
StartsWithFloorPulse(ch) ==
    ch \in { KnownChannels[i] : i \in 2..6 } \cup { UnknownChannel }

Conns == 1..MaxConns

NoConn == 0
NoChannel == "-"
NoEntry == [type |-> "none", channel |-> NoChannel, data |-> 0]

\* ------------------------------------------ intelligence API: the constants
\* A Python string is a sequence of tokens: the pieces the code puts
\* together or takes apart ("*", the floor number, ":") are tokens of
\* their own, every other piece is one token that none of the others is
\* part of. Concatenation is \o, `a in b` is Contains(a, b).
Contains(sub, s) ==
    \E i \in 0..(Len(s) - Len(sub)) : SubSeq(s, i + 1, i + Len(sub)) = sub

\* str.replace(old, "") for a one-token old.
Remove(s, old) == SelectSeq(s, LAMBDA x : x # old)

\* RATE_LIMITS, intelligence.py:28-32, in the order the dict is iterated.
RATE_LIMITS ==
    << [pattern |-> << "/api/floors/", "*", "/pulse" >>,
        limit |-> 180, window |-> 60],
       [pattern |-> << "/api/analytics/live" >>,
        limit |-> 240, window |-> 60],
       [pattern |-> << "/api/bot/query" >>,
        limit |-> 15, window |-> 60] >>

\* CACHE_TTLS, intelligence.py:35-41.
CACHE_TTLS ==
    ("intel:pulse" :> 30) @@ ("intel:network" :> 300) @@ ("intel:live" :> 15)
    @@ ("bot" :> 30) @@ ("intel:revenue" :> 60)

\* The floors, users, chats and messages the requests of a run name.
Floors == { 9 }
Subs == { "u1" }
ChatIds == { "c1" }

\* f"/api/floors/{floor_id}/pulse", intelligence.py:158.
FloorPulsePath(floor_id) == << "/api/floors/", ToString(floor_id), "/pulse" >>

\* The paths the handlers pass to check_rate_limit (lines 158, 309, 475).
LivePath == << "/api/analytics/live" >>
BotPath == << "/api/bot/query" >>

\* f"{jwt_payload.get('sub')}:{query.chatId}", intelligence.py:475.
BotIdentifier(sub, chatId) == << sub, ":", chatId >>

\* The `days` parameter of /community/network: its default,
\* intelligence.py:238.
DefaultDays == 30

\* The messages of the bot queries, as words, one for each branch of
\* query_bot: the floor pulse, the revenue, the network, and nothing the
\* bot knows.
Messages ==
    { << "Floor", " ", "Pulse" >>, << "revenue" >>, << "network" >>,
      << "hello" >> }

\* str.lower() on the words above.
Lower(s) ==
    [ i \in 1..Len(s) |->
        CASE s[i] = "Floor" -> "floor"
          [] s[i] = "Pulse" -> "pulse"
          [] OTHER -> s[i] ]

\* hashlib.md5(...).hexdigest(), intelligence.py:479: one token that tells
\* the digests of different texts apart.
Md5Hex(text) == << "md5", text >>

\* json.dumps / json.loads on the values the handlers build (string keys,
\* lists, numbers, strings, None): the text is not the value, and loading
\* the dumped text gives the value back.
JsonDumps(v) == [json |-> v]
JsonLoads(text) == text.json

\* The time left of a backend key that has no expiry (Redis: TTL -1).
NoExpiry == -1

Tasks == 1..MaxTasks

\* ------------------------------------- the messages of the client protocol
\* The floor of f"floor-pulse-{floor_id}", websocket.py:187.
FloorOf(ch) ==
    CASE ch = "floor-pulse-2" -> 2
      [] ch = "floor-pulse-4" -> 4
      [] ch = "floor-pulse-9" -> 9
      [] ch = "floor-pulse-15" -> 15
      [] ch = "floor-pulse-16" -> 16
      [] OTHER -> 0

\* A welcome that does not say who the user is.
WelcomeAnonymous(ep, channel, user) ==
    JsonDumps([type |-> "connected", channel |-> channel,
               user |-> "anonymous"])

\* The welcome message of the two endpoints, websocket.py:126-131 and
\* 194-200.
Welcome(ep, channel, user) ==
    IF ep = "tower"
    THEN JsonDumps([type |-> "connected", channel |-> "tower-ai-feed",
                    user |-> user,
                    message |-> << "Connected to Frontier Tower AI Feed" >>])
    ELSE JsonDumps([type |-> "connected", channel |-> channel,
                    floor |-> FloorOf(channel), user |-> user,
                    message |-> << "Connected to Floor ",
                                   ToString(FloorOf(channel)),
                                   " Pulse Feed" >>])

\* websocket.py:144 and 211-212.
Pong == JsonDumps([type |-> "pong"])

\* websocket.py:153-156.
Subscribed(channel) ==
    JsonDumps([type |-> "subscribed", channel |-> channel])

\* What the observer of the client protocol notes of a handler step: the
\* connection, the request or frame the step handled, how often the step
\* called websocket.accept, the personal messages it sent (to whom, and
\* the outcome of each send), and whether the handler ended in the step.
NoStep ==
    [ op |-> "none", conn |-> NoConn, type |-> "-", channel |-> NoChannel,
      accepts |-> 0, sent |-> << >>, ended |-> FALSE ]

\* No observer.
Unobserved == [NoStep EXCEPT !.op = "off"]

\* No function has been applied on its own: op is the function, in its
\* arguments, out its result; rd0 and hist are the backend a run of
\* check_rate_limit calls began with and the calls made on it so far.
NoCalc ==
    [ op |-> "none", in |-> << >>, out |-> << >>, rd0 |-> << >>,
      hist |-> << >> ]

VARIABLES
    active_connections,  \* ConnectionManager: channel -> set of connections
    user_channels,       \* ConnectionManager: connection -> set of channels
    hpc,                 \* position of each connection's handler task
    endpoint,            \* which route serves the connection
    hch,                 \* channel argument of the handler's pending connect
    user_id,             \* the handler's user, from the token's "sub"
    busq,                \* bus entries pubsub.listen() has yet to yield
    nPub,                \* number of data messages published so far
    bpc,                 \* position of the redis_listener task
    bch,                 \* broadcast: channel argument
    bmsg,                \* broadcast: message argument
    bcur,                \* broadcast: connection whose send_text is awaited
    bSize,               \* set iterator: size of the set when iteration began
    bStart,              \* set iterator: the members when iteration began
    bSeen,               \* set iterator: members it has yielded
    disconnected,        \* broadcast: local set of failed connections
    bStatus,             \* history: outcome of the current / last broadcast
    bDelivered,          \* history: connections the broadcast delivered to
    gone,                \* history: disconnected and not registered since
    bNotReg,             \* history: the gone connections when it began
    inbox,               \* history: broadcast payloads each client received
    bcalls,              \* history: number of broadcast calls so far
    nData,               \* history: data messages the listener has taken
    lastData,            \* history: the last data message it has taken
    dcErr,               \* history: a disconnect call raised
    dcNoop,              \* history: disconnect ran on an unregistered one
    redis,               \* the backend's keys: key -> [val, ttl]
    task,                \* position and locals of each HTTP request task
    probe,               \* the route and identity whose limiter a run calls
    win,                 \* history: the window the first call opened
    ret,                 \* history: the last answer of check_rate_limit
    nReq,                \* number of HTTP requests the handlers have got
    resp,                \* history: the response the last step produced
    written,             \* history: what cache_set last stored under a key
    hlast,               \* history: what the last handler step did
    calc                 \* history: the last function applied on its own

mgr == << active_connections, user_channels >>
hnd == << hpc, endpoint, hch, user_id >>
bus == << busq, nPub >>
bit == << bch, bmsg, bcur, bSize, bStart, bSeen, disconnected >>
bhist == << bStatus, bDelivered, bcalls >>
reg == << gone, bNotReg >>
taken == << nData, lastData >>
obs == << hlast, calc >>
ws == << mgr, hnd, bus, bpc, bit, bhist, reg, taken, inbox, dcErr, dcNoop,
        obs >>
rate == << probe, win, ret >>
http == << nReq, resp, written >>
intel == << redis, task, rate, http >>
vars == << ws, intel >>

\* ------------------------------------------------------- ConnectionManager
\* The registration half of connect (after the accept), with the bug of
\* assigning the connection's channel set instead of adding to it.
connect_overwrite(ac, uc, websocket, channel) ==
    IF channel \in DOMAIN ac
    THEN [ ac |-> [ac EXCEPT ![channel] = @ \cup {websocket}],
           uc |-> [c \in DOMAIN uc \cup {websocket} |->
                      IF c = websocket THEN {channel} ELSE uc[c]] ]
    ELSE [ ac |-> ac, uc |-> uc ]

\* ConnectionManager.connect after `await websocket.accept()`: lines 65-69
\* run without an await, so both maps change in one step.
connect(ac, uc, websocket, channel) ==
    IF channel \in DOMAIN ac
    THEN [ ac |-> [ac EXCEPT ![channel] = @ \cup {websocket}],
           uc |-> [c \in DOMAIN uc \cup {websocket} |->
                      IF c = websocket
                      THEN (IF websocket \in DOMAIN uc
                            THEN uc[websocket] ELSE {}) \cup {channel}
                      ELSE uc[c]] ]
    ELSE [ ac |-> ac, uc |-> uc ]

\* disconnect that forgets the channel sets and only drops the own set.
disconnect_keep_members(ac, uc, websocket) ==
    IF websocket \in DOMAIN uc
    THEN [ ac |-> ac,
           uc |-> [c \in DOMAIN uc \ {websocket} |-> uc[c]],
           err |-> FALSE ]
    ELSE [ ac |-> ac, uc |-> uc, err |-> FALSE ]

\* disconnect without the `if websocket in self.user_channels` guard:
\* the lookup raises KeyError for an unregistered connection.
disconnect_no_guard(ac, uc, websocket) ==
    IF websocket \in DOMAIN uc
    THEN [ ac |-> [x \in DOMAIN ac |->
                      IF x \in uc[websocket] THEN ac[x] \ {websocket}
                      ELSE ac[x]],
           uc |-> [c \in DOMAIN uc \ {websocket} |-> uc[c]],
           err |-> FALSE ]
    ELSE [ ac |-> ac, uc |-> uc, err |-> TRUE ]

\* ConnectionManager.disconnect: synchronous, hence one step; err tells
\* whether the call raised.
disconnect(ac, uc, websocket) ==
    IF websocket \in DOMAIN uc
    THEN [ ac |-> [x \in DOMAIN ac |->
                      IF x \in uc[websocket] THEN ac[x] \ {websocket}
                      ELSE ac[x]],
           uc |-> [c \in DOMAIN uc \ {websocket} |-> uc[c]],
           err |-> FALSE ]
    ELSE [ ac |-> ac, uc |-> uc, err |-> FALSE ]

\* `for conn in disconnected: self.disconnect(conn)`, websocket.py:100-101.
\* The first call that raises ends the loop.
RECURSIVE disconnect_all(_, _, _)
disconnect_all(ac, uc, conns) ==
    IF conns = {}
    THEN [ ac |-> ac, uc |-> uc, err |-> FALSE ]
    ELSE LET conn == CHOOSE x \in conns : \A y \in conns : x <= y
             r == disconnect(ac, uc, conn)
         IN  IF r.err THEN r
             ELSE disconnect_all(r.ac, r.uc, conns \ {conn})

\* --------------------------------------------- intelligence API: the state
\* A request task that is not running.
NoCall ==
    [ h |-> "-", sub |-> "-", floor_id |-> 0, days |-> 0, chatId |-> "-",
      message |-> << >> ]

NoBody == [kind |-> "none"]

NoWrite == [key |-> << >>, value |-> NoBody, ttl |-> 0]

NoPub == [channel |-> "-", message |-> JsonDumps(NoBody)]

IdleTask ==
    [ pc |-> "idle", h |-> "-", rkey |-> << >>, window |-> 0,
      allowed |-> FALSE, call |-> NoCall, over |-> FALSE, counted |-> FALSE,
      body |-> NoBody, wrote |-> NoWrite ]

\* The requests of a run: one per read handler, one per message for the
\* bot.
Calls ==
    { [NoCall EXCEPT !.h = "get_floor_pulse", !.sub = s, !.floor_id = f] :
         s \in Subs, f \in Floors }
    \cup { [NoCall EXCEPT !.h = "get_community_network", !.sub = s,
                          !.days = DefaultDays] : s \in Subs }
    \cup { [NoCall EXCEPT !.h = "get_live_analytics", !.sub = s] :
             s \in Subs }
    \cup { [NoCall EXCEPT !.h = "get_revenue_optimization", !.sub = s] :
             s \in Subs }
    \cup { [NoCall EXCEPT !.h = "query_bot", !.sub = s, !.chatId = c,
                          !.message = m] :
             s \in Subs, c \in ChatIds, m \in Messages }

\* The handlers that begin with check_rate_limit (lines 158, 309, 475).
RateLimited == { "get_floor_pulse", "get_live_analytics", "query_bot" }

\* The arguments of the handler's check_rate_limit call.
RatePath(call) ==
    CASE call.h = "get_floor_pulse" -> FloorPulsePath(call.floor_id)
      [] call.h = "get_live_analytics" -> LivePath
      [] call.h = "query_bot" -> BotPath

RateIdentifier(call) ==
    IF call.h = "query_bot" THEN BotIdentifier(call.sub, call.chatId)
    ELSE << call.sub >>

\* The entry of RATE_LIMITS that is written for the handler's route.
RouteLimit(call) ==
    CASE call.h = "get_floor_pulse" -> RATE_LIMITS[1]
      [] call.h = "get_live_analytics" -> RATE_LIMITS[2]
      [] call.h = "query_bot" -> RATE_LIMITS[3]

\* cache_key of each handler (lines 162, 244, 313, 407, 479-480).
CacheKey(call) ==
    CASE call.h = "get_floor_pulse" ->
             << "intel:pulse:", ToString(call.floor_id) >>
      [] call.h = "get_community_network" ->
             << "intel:network:", ToString(call.days) >>
      [] call.h = "get_live_analytics" -> << "intel:live" >>
      [] call.h = "get_revenue_optimization" -> << "intel:revenue" >>
      [] call.h = "query_bot" ->
             << "bot:", call.chatId, ":",
                Md5Hex(<< call.chatId, ":" >> \o call.message) >>

\* The TTL each handler passes to cache_set (lines 232, 300, 398, 463,
\* 616).
CacheTtl(call) ==
    CASE call.h = "get_floor_pulse" -> CACHE_TTLS["intel:pulse"]
      [] call.h = "get_community_network" -> CACHE_TTLS["intel:network"]
      [] call.h = "get_live_analytics" -> CACHE_TTLS["intel:live"]
      [] call.h = "get_revenue_optimization" -> CACHE_TTLS["intel:revenue"]
      [] call.h = "query_bot" -> CACHE_TTLS["bot"]

\* No response.
NoResp ==
    [ call |-> NoCall, status |-> 0, err |-> "none", over |-> FALSE,
      counted |-> FALSE, hit |-> FALSE, queried |-> FALSE, rows |-> "-",
      body |-> NoBody,
      wrote |-> NoWrite, pub |-> NoPub ]

\* The calls a run of the limiter makes: the path and the identifier a
\* handler passes to check_rate_limit, and the entry of RATE_LIMITS that is
\* written for the handler's route.
Probes ==
    { [route |-> 1, path |-> FloorPulsePath(f), identifier |-> << s >>] :
         f \in Floors, s \in Subs }
    \cup { [route |-> 2, path |-> LivePath, identifier |-> << s >>] :
             s \in Subs }
    \cup { [route |-> 3, path |-> BotPath,
            identifier |-> BotIdentifier(s, c)] : s \in Subs, c \in ChatIds }

NoProbe == [route |-> 0, path |-> << >>, identifier |-> << >>]

NoWindow == [calls |-> 0, left |-> 0]

\* ------------------------------------------------------------------- Init
\* The fan-out subsystem after construction.
WsStart ==
    /\ active_connections = [x \in Channels |-> {}]
    /\ user_channels = << >>
    /\ hpc = [c \in Conns |-> "new"]
    /\ endpoint = [c \in Conns |-> "-"]
    /\ hch = [c \in Conns |-> NoChannel]
    /\ user_id = [c \in Conns |-> "-"]
    /\ busq = << >>
    /\ nPub = 0
    /\ bpc = "init"
    /\ bch = NoChannel
    /\ bmsg = 0
    /\ bcur = NoConn
    /\ bSize = 0
    /\ bStart = {}
    /\ bSeen = {}
    /\ disconnected = {}
    /\ bStatus = "none"
    /\ bDelivered = {}
    /\ gone = {}
    /\ bNotReg = {}
    /\ inbox = [c \in Conns |-> << >>]
    /\ bcalls = 0
    /\ nData = 0
    /\ lastData = NoEntry
    /\ dcErr = FALSE
    /\ dcNoop = FALSE
    /\ calc = NoCalc

\* The fan-out subsystem without an observer of the client protocol.
WsInit == WsStart /\ hlast = Unobserved

\* The request side before any request: an empty backend, no task running.
IntelInit ==
    /\ redis = << >>
    /\ task = [t \in Tasks |-> IdleTask]
    /\ probe = NoProbe
    /\ win = NoWindow
    /\ ret = "none"
    /\ nReq = 0
    /\ resp = NoResp
    /\ written = << >>

Init == WsInit /\ IntelInit

\* ---------------------------------------------------------------- history
\* A connect has returned: c is no longer "gone" when it is now registered.
Registered(c, uc) ==
    /\ gone' = IF c \in DOMAIN uc THEN gone \ {c} ELSE gone
    /\ bNotReg' = IF c \in DOMAIN uc THEN bNotReg \ {c} ELSE bNotReg

\* disconnect has been called for each connection of cs (and has returned
\* normally unless err).
Disconnected(cs, err) ==
    /\ gone' = IF err THEN gone ELSE gone \cup cs
    /\ dcNoop' = (dcNoop \/ \E c \in cs : c \notin DOMAIN user_channels)
    /\ UNCHANGED bNotReg

\* ------------------------------------------------------ WebSocket handlers
\* What a client asks for when it opens a WebSocket: the token it shows and
\* the channel of the route (the tower feed, or the floor of
\* /ws/floor-pulse/{floor_id}).
Requests ==
    { [tok |-> "missing", ch |-> NoChannel],
      [tok |-> "invalid", ch |-> NoChannel] }
    \cup { [tok |-> "ok", ch |-> ch] : ch \in Channels \cup {UnknownChannel} }

\* A floor check that lets every floor pass.
AnyFloorChannel == { KnownChannels[i] : i \in 2..6 } \cup { UnknownChannel }

\* floor_id in [2, 4, 9, 15, 16], websocket.py:183, as channel names.
ValidFloorChannels == { KnownChannels[i] : i \in 2..6 }

\* jwt_payload.get("sub", "anonymous"), websocket.py:116 and 177: the
\* valid token of a run is the one of the run's user.
TokenSub(tok) == CHOOSE u \in Subs : TRUE

\* The observer's note of a step, when there is an observer.
Observe(step) ==
    /\ hlast' = IF hlast = Unobserved THEN hlast ELSE step
    /\ UNCHANGED calc

\* websocket_tower_feed / websocket_floor_pulse up to the connect call:
\* token check, floor check, then `await manager.connect(...)`, which
\* calls `websocket.accept()` and waits for it. A rejected request is
\* closed (websocket.close, lines 111, 118, 172, 179, 184) and the handler
\* returns.
HStart(c, tok, ch) ==
    /\ hpc[c] = "new"
    /\ UNCHANGED intel
    /\ UNCHANGED << mgr, bus, bpc, bit, bhist, reg, taken, inbox, dcErr,
                    dcNoop >>
    /\ LET ep == IF tok # "ok" THEN "-"
                 ELSE IF ch = KnownChannels[1] THEN "tower"
                 ELSE IF ch \in ValidFloorChannels THEN "floor"
                 ELSE "-"
       IN  /\ Observe([NoStep EXCEPT !.op = "start", !.conn = c,
                                     !.type = tok, !.channel = ch,
                                     !.accepts = IF ep = "-" THEN 0 ELSE 1,
                                     !.ended = (ep = "-")])
           /\ IF ep = "-"
              THEN /\ hpc' = [hpc EXCEPT ![c] = "closed"]
                   /\ UNCHANGED << endpoint, hch, user_id >>
              ELSE /\ hpc' = [hpc EXCEPT ![c] = "accept"]
                   /\ endpoint' = [endpoint EXCEPT ![c] = ep]
                   /\ hch' = [hch EXCEPT ![c] = ch]
                   /\ user_id' = [user_id EXCEPT ![c] = TokenSub(tok)]

\* The first manager.connect of a handler returns from its accept. The call
\* is outside the handler's try block: when accept raises the handler ends
\* without a disconnect. On success the handler registers and goes on,
\* without yielding to the event loop, into send_personal_message of the
\* "connected" message (sok: the send succeeds) and then into
\* receive_text. send_personal_message swallows every exception and
\* touches no manager state (websocket.py:81-86), so a handler waiting in
\* it is, to every other task, a handler waiting for its next frame: both
\* are position "recv".
HAccept(c, ok, sok) ==
    /\ hpc[c] = "accept"
    /\ UNCHANGED intel
    /\ UNCHANGED << endpoint, bus, bpc, bit, bhist, taken, inbox, dcErr,
                    dcNoop >>
    /\ hch' = [hch EXCEPT ![c] = NoChannel]
    /\ IF ok
       THEN LET r == connect(active_connections, user_channels, c, hch[c])
            IN  /\ active_connections' = r.ac
                /\ user_channels' = r.uc
                /\ Registered(c, r.uc)
                /\ hpc' = [hpc EXCEPT ![c] = "recv"]
                /\ UNCHANGED user_id
                /\ Observe([NoStep EXCEPT
                              !.op = "accept", !.conn = c,
                              !.channel = hch[c],
                              !.sent = << [to |-> c,
                                           text |-> Welcome(endpoint[c],
                                                            hch[c],
                                                            user_id[c]),
                                           ok |-> sok] >>])
       ELSE /\ hpc' = [hpc EXCEPT ![c] = "closed"]
            /\ user_id' = [user_id EXCEPT ![c] = "-"]
            /\ UNCHANGED << mgr, reg >>
            /\ Observe([NoStep EXCEPT !.op = "accept", !.conn = c,
                                      !.channel = hch[c], !.ended = TRUE])

\* What receive_text gives the handler: a frame, a frame that is not JSON
\* ("malformed"), or WebSocketDisconnect ("close").
Frames ==
    { [type |-> t, channel |-> NoChannel] :
         t \in { "ping", "other", "malformed", "close" } }
    \cup { [type |-> "subscribe", channel |-> ch] :
             ch \in Channels \cup {UnknownChannel, NoChannel} }

\* The outcomes of the accept a frame leads to: it returns or it raises.
AcceptOutcomes(f) == IF f.type = "subscribe" THEN BOOLEAN ELSE { TRUE }

\* The outcomes of the personal send a frame leads to: it returns or it
\* raises.
SendOutcomes(f) ==
    IF f.type \in { "ping", "subscribe" } THEN BOOLEAN ELSE { TRUE }

\* One turn of the receive loop: receive_text returns a frame (or raises
\* WebSocketDisconnect: "close"), json.loads parses it (or raises:
\* "malformed"), and the frame is dispatched: a ping is answered by
\* send_personal_message, anything else but a subscribe is ignored.
\* A subscribe to a "floor-pulse-" name (tower feed only) calls
\* manager.connect, which calls accept on the already accepted WebSocket;
\* no handshake with the peer is pending there, so the call returns or
\* raises (ok) within the step. It is inside the try block: an exception
\* is caught by `except Exception`, and the handler disconnects and ends.
\* After a connect that returned the "subscribed" message is sent by
\* send_personal_message (sok: the send succeeds).
HRecv(c, type, ch, ok, sok) ==
    /\ hpc[c] = "recv"
    /\ UNCHANGED intel
    /\ UNCHANGED << endpoint, hch, bus, bpc, bit, bhist, taken, inbox >>
    /\ LET step == [NoStep EXCEPT !.op = "recv", !.conn = c,
                                  !.type = type, !.channel = ch]
       IN
       IF type \in { "close", "malformed" }
       THEN LET r == disconnect(active_connections, user_channels, c)
            IN  /\ active_connections' = r.ac
                /\ user_channels' = r.uc
                /\ dcErr' = (dcErr \/ r.err)
                /\ Disconnected({c}, r.err)
                /\ hpc' = [hpc EXCEPT ![c] = "closed"]
                /\ user_id' = [user_id EXCEPT ![c] = "-"]
                /\ Observe([step EXCEPT !.ended = TRUE])
       ELSE IF /\ type = "subscribe"
               /\ endpoint[c] = "tower"
               /\ ch # NoChannel
               /\ StartsWithFloorPulse(ch)
       THEN IF ok
            THEN LET r == connect(active_connections, user_channels, c, ch)
                 IN  /\ active_connections' = r.ac
                     /\ user_channels' = r.uc
                     /\ Registered(c, r.uc)
                     /\ UNCHANGED << hpc, user_id, dcErr, dcNoop >>
                     /\ Observe([step EXCEPT
                                   !.accepts = 1,
                                   !.sent = << [to |-> c,
                                                text |-> Subscribed(ch),
                                                ok |-> sok] >>])
            ELSE LET r == disconnect(active_connections, user_channels, c)
                 IN  /\ active_connections' = r.ac
                     /\ user_channels' = r.uc
                     /\ dcErr' = (dcErr \/ r.err)
                     /\ Disconnected({c}, r.err)
                     /\ hpc' = [hpc EXCEPT ![c] = "closed"]
                     /\ user_id' = [user_id EXCEPT ![c] = "-"]
                     /\ Observe([step EXCEPT !.accepts = 1, !.ended = TRUE])
       ELSE /\ UNCHANGED << mgr, hpc, user_id, reg, dcErr, dcNoop >>
            /\ Observe(IF type = "ping"
                       THEN [step EXCEPT
                               !.sent = << [to |-> c, text |-> Pong,
                                            ok |-> sok] >>]
                       ELSE step)

\* ------------------------------------------------------------ the iterator
\* `for connection in self.active_connections[channel]` iterates the live
\* set while other tasks run during each awaited send. A set iterator
\* raises RuntimeError on the next step when the set's size differs from
\* the size it had when the iteration began. When the size is the same it
\* yields a member it has not yielded yet; a member added since the
\* iteration began may be yielded or skipped (its slot may lie before or
\* after the iterator's position).
IterOutcomes(members, start, size, seen) ==
    IF Cardinality(members) # size
    THEN { [kind |-> "raise", conn |-> NoConn] }
    ELSE { [kind |-> "yield", conn |-> c] : c \in members \ seen }
         \cup (IF (members \ seen) \subseteq (members \ start)
               THEN { [kind |-> "stop", conn |-> NoConn] }
               ELSE {})

\* broadcast from one await to the next: take the next connection of the
\* iteration and start its send, or leave the loop and clean up, or let
\* the iterator's RuntimeError escape (it is raised by the for statement,
\* outside the try block), which ends the listener task, and with it its
\* subscription: the entries q it has not read are never read. The locals
\* of broadcast and the history of the call end with the call.
Iterate(channel, start, size, seen, disc, dlv, q) ==
    \E o \in IterOutcomes(active_connections[channel], start, size, seen) :
        IF o.kind = "yield"
        THEN /\ bpc' = "send"
             /\ bStatus' = "running"
             /\ bcur' = o.conn
             /\ bSeen' = seen \cup {o.conn}
             /\ bStart' = start
             /\ bSize' = size
             /\ disconnected' = disc
             /\ bDelivered' = dlv
             /\ busq' = q
             /\ UNCHANGED << mgr, gone, dcErr, dcNoop >>
        ELSE /\ bcur' = NoConn
             /\ bSeen' = {}
             /\ bStart' = {}
             /\ bSize' = 0
             /\ disconnected' = {}
             /\ bDelivered' = {}
             /\ IF o.kind = "raise"
                THEN /\ bpc' = "dead"
                     /\ bStatus' = "raised"
                     /\ busq' = << >>
                     /\ UNCHANGED << mgr, gone, dcErr, dcNoop >>
                ELSE LET r == disconnect_all(active_connections,
                                             user_channels, disc)
                     IN  /\ active_connections' = r.ac
                         /\ user_channels' = r.uc
                         /\ dcErr' = (dcErr \/ r.err)
                         /\ gone' = IF r.err THEN gone ELSE gone \cup disc
                         /\ dcNoop' = (dcNoop \/ \E c \in disc :
                                           c \notin DOMAIN user_channels)
                         /\ bpc' = IF r.err THEN "dead" ELSE "listen"
                         /\ busq' = IF r.err THEN << >> ELSE q
                         /\ bStatus' = IF r.err THEN "raised" ELSE "returned"

\* ------------------------------------------------------------- the Bridge
\* redis_listener up to its first listen: get_redis and pubsub.subscribe.
\* The subscription yields one confirmation entry per channel. Nothing in
\* redis_listener or in lifespan (app.py:35-40) catches a failure: the
\* task ends with the exception.
BridgeStart(ok) ==
    /\ bpc = "init"
    /\ UNCHANGED intel
    /\ UNCHANGED << mgr, hnd, nPub, bit, bhist, reg, taken, inbox,
                    dcErr, dcNoop, obs >>
    /\ IF ok
       THEN /\ bpc' = "listen"
            /\ busq' = [i \in 1..NumChannels |->
                          [type |-> "subscribe", channel |-> KnownChannels[i],
                           data |-> i]]
       ELSE /\ bpc' = "dead"
            /\ UNCHANGED busq

\* Some process publishes a payload on a channel the listener subscribed
\* to (publish_floor_pulse and the like); payloads are numbered in the
\* order of their publication.
Publish(ch) ==
    /\ bpc \in { "listen", "send" }
    /\ nPub < MaxMsgs
    /\ nPub' = nPub + 1
    /\ busq' = Append(busq, [type |-> "message", channel |-> ch,
                             data |-> nPub + 1])
    /\ UNCHANGED intel
    /\ UNCHANGED << mgr, hnd, bpc, bit, bhist, reg, taken, inbox, dcErr,
                    dcNoop, obs >>

\* A listener that takes the newest entry instead of the oldest.
NextEntryNewest(q) == Len(q)

\* `async for message in pubsub.listen()`: the index in the queue of the
\* entry the listener gets, the oldest one.
NextEntry(q) == 1

\* A listener that forwards every entry.
IsDataMessageAlways(message) == TRUE

\* `if message["type"] == "message"`, websocket.py:240.
IsDataMessage(message) == message.type = "message"

\* A listener that broadcasts every payload on the tower feed.
BroadcastArgsTower(message) ==
    [channel |-> KnownChannels[1], message |-> message.data]

\* websocket.py:241-245: the arguments of manager.broadcast.
BroadcastArgs(message) ==
    [channel |-> message.channel, message |-> message.data]

\* One turn of the listen loop: take the next entry; a data message is
\* broadcast, which runs up to its first awaited send (or to its end when
\* the channel has no members or is unknown).
BridgeListen ==
    /\ bpc = "listen"
    /\ Len(busq) > 0
    /\ UNCHANGED intel
    /\ UNCHANGED << hnd, nPub, inbox, obs >>
    /\ LET message == busq[NextEntry(busq)]
           rest == [i \in 1..(Len(busq) - 1) |->
                      IF i < NextEntry(busq) THEN busq[i] ELSE busq[i + 1]]
           args == BroadcastArgs(message)
           members == active_connections[args.channel]
       IN  /\ nData' = IF message.type = "message" THEN nData + 1 ELSE nData
           /\ lastData' = IF message.type = "message" THEN message
                                                     ELSE lastData
           /\ IF IsDataMessage(message)
              THEN /\ bcalls' = bcalls + 1
                   /\ bch' = args.channel
                   /\ bmsg' = args.message
                   /\ bNotReg' = gone
                   /\ IF args.channel \in DOMAIN active_connections
                      THEN Iterate(args.channel, members,
                                   Cardinality(members), {}, {}, {}, rest)
                      ELSE /\ bStatus' = "returned"
                           /\ busq' = rest
                           /\ UNCHANGED << mgr, bpc, bcur, bSize, bStart,
                                           bSeen, disconnected, bDelivered,
                                           gone, dcErr, dcNoop >>
              ELSE /\ busq' = rest
                   /\ UNCHANGED << mgr, bpc, bit, bhist, reg, dcErr, dcNoop >>

\* pubsub.listen() raises (the bus connection is lost): uncaught, the
\* listener task ends and its unread entries are lost.
BridgeBusError ==
    /\ bpc = "listen"
    /\ bpc' = "dead"
    /\ busq' = << >>
    /\ UNCHANGED intel
    /\ UNCHANGED << mgr, hnd, nPub, bit, bhist, reg, taken, inbox,
                    dcErr, dcNoop, obs >>

\* The awaited `connection.send_text(message)` of broadcast returns (ok) or
\* raises (not ok: the connection is added to `disconnected`), and the
\* broadcast runs on to its next await.
SendDone(c, ok) ==
    /\ bpc = "send"
    /\ bcur = c
    /\ UNCHANGED intel
    /\ UNCHANGED << hnd, nPub, bch, bmsg, bcalls, bNotReg, taken,
                    obs >>
    /\ inbox' = IF ok THEN [inbox EXCEPT ![c] = Append(@, bmsg)] ELSE inbox
    /\ Iterate(bch, bStart, bSize, bSeen,
               IF ok THEN disconnected ELSE disconnected \cup {c},
               IF ok THEN bDelivered \cup {c} ELSE bDelivered,
               busq)

\* ------------------------------------------------------------------- Next
Next ==
    \/ \E c \in Conns, req \in Requests : HStart(c, req.tok, req.ch)
    \/ \E c \in Conns, ok \in BOOLEAN, sok \in BOOLEAN : HAccept(c, ok, sok)
    \/ \E c \in Conns, f \in Frames :
           \E ok \in AcceptOutcomes(f), sok \in SendOutcomes(f) :
               HRecv(c, f.type, f.channel, ok, sok)
    \/ \E ok \in BOOLEAN : BridgeStart(ok)
    \/ \E ch \in Channels : Publish(ch)
    \/ BridgeListen
    \/ BridgeBusError
    \/ \E c \in Conns, ok \in BOOLEAN : SendDone(c, ok)

Spec == Init /\ [][Next]_vars

TypeOK ==
    /\ DOMAIN active_connections = Channels
    /\ \A x \in Channels : active_connections[x] \subseteq Conns
    /\ DOMAIN user_channels \subseteq Conns
    /\ bpc \in { "init", "listen", "send", "dead" }

\* A connection whose peer may stop reading: a send to it need not ever
\* complete. The sends to every other connection do complete, and the
\* listener runs whenever it has an entry to take.
SlowConns == { 1 }

FairSpec ==
    /\ Init
    /\ [][Next]_vars
    /\ WF_vars(BridgeListen)
    /\ \A c \in Conns \ SlowConns : WF_vars(\E ok \in BOOLEAN : SendDone(c, ok))

\* ------------------------------------------------- the backend (Redis)
\* The commands the code sends, on a key space in which a key carries the
\* seconds it has left (or NoExpiry). A key whose time is up is not in the
\* key space: the backend never returns it.

\* INCR: a missing key counts from 0 and gets no expiry; an existing one
\* keeps its expiry.
INCR(rd, key) ==
    [ k \in DOMAIN rd \cup {key} |->
        IF k # key THEN rd[k]
        ELSE IF key \in DOMAIN rd
        THEN [val |-> rd[key].val + 1, ttl |-> rd[key].ttl]
        ELSE [val |-> 1, ttl |-> NoExpiry] ]

\* EXPIRE: sets the time an existing key has left.
EXPIRE(rd, key, seconds) ==
    IF key \in DOMAIN rd THEN [rd EXCEPT ![key].ttl = seconds] ELSE rd

\* The key space d seconds later.
Elapse(rd, d) ==
    LET kept == { k \in DOMAIN rd :
                    rd[k].ttl = NoExpiry \/ rd[k].ttl > d }
    IN  [ k \in kept |->
            IF rd[k].ttl = NoExpiry THEN rd[k]
            ELSE [rd[k] EXCEPT !.ttl = @ - d] ]

\* The time between two instants of the model's clock, 30 s: requests and
\* backend commands happen at instants that are a multiple of it apart.
\* The window is two steps, the TTLs are one, two and ten steps, and the
\* live summary's TTL is over within one.
TimeStep == CACHE_TTLS["intel:pulse"]

\* ------------------------------------------------------- check_rate_limit
\* f"rate:{path}:{identifier}", intelligence.py:139.
RateKey(path, identifier) == << "rate:" >> \o path \o << ":" >> \o identifier

\* The loop of lines 141-142: the first entry of RATE_LIMITS whose pattern,
\* with every "*" removed, is part of the path; 0 when there is none.
MatchingLimit(path) ==
    LET m == { i \in 1..Len(RATE_LIMITS) :
                 Contains(Remove(RATE_LIMITS[i].pattern, "*"), path) }
    IN  IF m = {} THEN 0 ELSE CHOOSE i \in m : \A j \in m : i <= j

\* check_rate_limit up to the return of `await r.incr(key)` (lines 138-144;
\* a task that has not yet sent its INCR has changed nothing, so the call
\* and its INCR are one step). ok: the backend answers; otherwise incr
\* raises and nothing catches it. out is what the call does next: it
\* returns True or False, it raises, or it goes on to `await r.expire`;
\* allowed is `count <= limit`, the value it is going to return.
CheckIncr(rd, path, identifier, ok) ==
    LET i == MatchingLimit(path)
        key == RateKey(path, identifier)
        rd2 == INCR(rd, key)
        count == rd2[key].val
    IN  IF i = 0
        THEN [rd |-> rd, out |-> "true", allowed |-> TRUE, key |-> key,
              window |-> 0]
        ELSE IF ~ok
        THEN [rd |-> rd, out |-> "raise", allowed |-> FALSE, key |-> key,
              window |-> 0]
        ELSE [rd |-> rd2,
              out |-> IF count = 1 THEN "expire"
                      ELSE IF count <= RATE_LIMITS[i].limit THEN "true"
                      ELSE "false",
              allowed |-> (count <= RATE_LIMITS[i].limit),
              key |-> key,
              window |-> RATE_LIMITS[i].window]

\* History: a call has been answered from the counter (or without one):
\* it opens the window when none is open, and it is one more call of it.
Counted(w, window) ==
    IF w.left = 0 THEN [calls |-> 1, left |-> window]
    ELSE [w EXCEPT !.calls = @ + 1]

\* The entry of RATE_LIMITS written for the route the run calls.
ProbeLimit == RATE_LIMITS[probe.route]

\* The counter of the run's key, 0 when the backend has no such key.
ProbeCount ==
    LET key == RateKey(probe.path, probe.identifier)
    IN  IF key \in DOMAIN redis THEN redis[key].val ELSE 0

\* A task calls check_rate_limit(path, identifier) for the run's route and
\* identity, and runs to the return of incr. The run stops calling once
\* the counter, or the number of calls of the window, is past the limit.
RlCall(t, ok) ==
    /\ probe # NoProbe
    /\ task[t].pc = "idle"
    /\ win.calls <= ProbeLimit.limit
    /\ ProbeCount <= ProbeLimit.limit
    /\ UNCHANGED << ws, probe, http >>
    /\ LET r == CheckIncr(redis, probe.path, probe.identifier, ok)
       IN  /\ redis' = r.rd
           /\ win' = IF r.out = "raise" THEN win
                      ELSE Counted(win, ProbeLimit.window)
           /\ ret' = IF r.out = "raise" THEN "raise"
                      ELSE IF r.allowed THEN "true" ELSE "false"
           /\ task' = IF r.out = "expire"
                       THEN [task EXCEPT ![t] =
                               [IdleTask EXCEPT !.pc = "expire",
                                                !.h = "check_rate_limit",
                                                !.rkey = r.key,
                                                !.window = r.window,
                                                !.allowed = r.allowed]]
                       ELSE task

\* What a handler leaves behind when it ends: the response (status 200,
\* 429 with "Rate limit exceeded", or 500 when an exception escapes it)
\* and what the request did on its way. resp holds it in the state the
\* handler's last step leads to, and NoResp in every other state. rows is
\* what the result was built from, "-" when the request has no result;
\* counted tells whether the request's check_rate_limit incremented a
\* counter.
Response(tk, status, err, hit, queried, body, pub) ==
    [ call |-> tk.call, status |-> status, err |-> err,
      over |-> tk.over, counted |-> tk.counted, hit |-> hit,
      queried |-> queried,
      rows |-> IF "rows" \in DOMAIN body THEN body.rows ELSE "-",
      body |-> body, wrote |-> tk.wrote, pub |-> pub ]

\* A handler whose check_rate_limit has returned True: the locals of the
\* call are gone, the handler awaits cache_get.
Admitted(tk) ==
    [tk EXCEPT !.pc = "get", !.rkey = << >>, !.window = 0,
               !.allowed = FALSE]

\* `await r.expire(key, window)` of the call that counted 1 returns, and
\* the call returns `count <= limit`; or expire raises and the call ends
\* with the exception: the key keeps the expiry it had, none. In a handler
\* the answer False raises HTTPException(429) and the answer True leads to
\* cache_get; the exception escapes the handler.
RlExpire(t, ok) ==
    /\ task[t].pc = "expire"
    /\ UNCHANGED << ws, probe, win, nReq, written >>
    /\ redis' = IF ok THEN EXPIRE(redis, task[t].rkey, task[t].window)
                      ELSE redis
    /\ IF task[t].h = "check_rate_limit"
       THEN /\ ret' = IF ok THEN ret ELSE "raise"
            /\ task' = [task EXCEPT ![t] = IdleTask]
            /\ UNCHANGED resp
       ELSE /\ UNCHANGED ret
            /\ IF ok /\ task[t].allowed
               THEN /\ task' = [task EXCEPT ![t] = Admitted(task[t])]
                    /\ resp' = NoResp
               ELSE /\ task' = [task EXCEPT ![t] = IdleTask]
                    /\ resp' = IF ok
                               THEN Response(task[t], 429,
                                             "Rate limit exceeded", FALSE,
                                             FALSE, NoBody, NoPub)
                               ELSE Response(task[t], 500, "rate", FALSE,
                                             FALSE, NoBody, NoPub)

\* ----------------------------------------------------------- the cache
\* What `await r.get(key)` returns for a key the backend does not have.
None == [none |-> TRUE]

\* GET and SETEX of the backend.
GET(rd, key) == IF key \in DOMAIN rd THEN rd[key].val ELSE None

SETEX(rd, key, seconds, value) ==
    [ k \in DOMAIN rd \cup {key} |->
        IF k = key THEN [val |-> value, ttl |-> seconds] ELSE rd[k] ]

\* cache_get, intelligence.py:129-131.
cache_get(rd, key) == GET(rd, key)

\* A cache_set that stores the entry without the TTL it is given.
cache_set_forever(rd, key, value, ttl) == SETEX(rd, key, NoExpiry, value)

\* cache_set, intelligence.py:133-135: `r.setex(key, ttl, value)`.
cache_set(rd, key, value, ttl) == SETEX(rd, key, ttl, value)

\* The empty string.
EmptyText == [empty |-> TRUE]

\* `if cached:` (line 164 and its like): None and the empty string are
\* not a hit.
IsHit(cached) == cached \notin { None, EmptyText }

\* ----------------------------------------------------------- the Store
\* What the Store does with the queries of one request: it answers with
\* rows, it answers with none, or a query raises.
StoreAnswers == { "rows", "empty", "error" }

\* The branch of query_bot a message takes, intelligence.py:489-594.
Intent(message) ==
    LET m == Lower(message)
    IN  IF Contains(<< "pulse" >>, m) \/ Contains(<< "activity" >>, m)
        THEN "pulse"
        ELSE IF Contains(<< "revenue" >>, m)
                \/ Contains(<< "optimization" >>, m)
        THEN "revenue"
        ELSE IF Contains(<< "collaboration" >>, m)
                \/ Contains(<< "network" >>, m)
        THEN "network"
        ELSE "default"

\* The result a handler builds from the Store's answer. The pulse branch
\* of query_bot subscripts `top_floor`, which is None when floor_insights
\* gave no row (lines 500-501): TypeError. Every other handler and branch
\* builds its lists from whatever rows there are.
Shape(call, answer) ==
    [ raises |-> (/\ call.h = "query_bot"
                  /\ Intent(call.message) = "pulse"
                  /\ answer = "empty"),
      value |-> [kind |-> call.h, of |-> CacheKey(call), rows |-> answer] ]

\* A hit that returns the cached text itself.
HitBodyText(cached) == cached

\* `return json.loads(cached)`.
HitBody(cached) == JsonLoads(cached)

\* A hit that publishes the cached answer like a miss does.
HitEventPublish(call, result) ==
    [ channel |-> "tower-ai-feed",
      message |-> JsonDumps([type |-> "bot_response",
                             chatId |-> call.chatId,
                             response |-> result]) ]

\* What a handler publishes when it returns the cached value: nothing,
\* `return json.loads(cached)` (line 485 and its like) ends the handler.
HitEvent(call, result) == NoPub

\* An event that carries no response.
BotEventEmpty(call, result) ==
    [ channel |-> "tower-ai-feed",
      message |-> JsonDumps([type |-> "bot_response",
                             chatId |-> call.chatId,
                             response |-> NoBody]) ]

\* The arguments of r.publish in query_bot, intelligence.py:620-624.
BotEvent(call, result) ==
    [ channel |-> "tower-ai-feed",
      message |-> JsonDumps([type |-> "bot_response",
                             chatId |-> call.chatId,
                             response |-> result]) ]

\* ---------------------------------------------------------- the handlers
\* The counter of a key, 0 when the backend has no such key.
CountOf(rd, key) == IF key \in DOMAIN rd THEN rd[key].val ELSE 0

\* A request arrives and its handler runs to its first backend answer.
\* A rate-limited handler calls check_rate_limit and gets the answer of
\* incr: the call raises, or returns False (HTTPException 429), or returns
\* True (the handler goes on to cache_get), or goes on to expire. The
\* other handlers go straight to cache_get.
Request(t, call, ok) ==
    /\ probe = NoProbe
    /\ task[t].pc = "idle"
    /\ nReq < MaxRequests
    /\ nReq' = nReq + 1
    /\ UNCHANGED << ws, rate, written >>
    /\ IF call.h \in RateLimited
       THEN LET path == RatePath(call)
                identifier == RateIdentifier(call)
                r == CheckIncr(redis, path, identifier, ok)
                tk == [IdleTask EXCEPT
                          !.h = call.h, !.call = call,
                          !.over = (CountOf(redis, RateKey(path, identifier))
                                       >= RouteLimit(call).limit),
                          !.counted = (r.rd # redis),
                          !.rkey = r.key, !.window = r.window,
                          !.allowed = r.allowed]
            IN  /\ redis' = r.rd
                /\ CASE r.out = "raise" ->
                          /\ resp' = Response(tk, 500, "rate", FALSE, FALSE,
                                              NoBody, NoPub)
                          /\ UNCHANGED task
                     [] r.out = "false" ->
                          /\ resp' = Response(tk, 429, "Rate limit exceeded",
                                              FALSE, FALSE, NoBody, NoPub)
                          /\ UNCHANGED task
                     [] r.out = "true" ->
                          /\ task' = [task EXCEPT ![t] = Admitted(tk)]
                          /\ resp' = NoResp
                     [] r.out = "expire" ->
                          /\ task' = [task EXCEPT ![t] =
                                        [tk EXCEPT !.pc = "expire"]]
                          /\ resp' = NoResp
       ELSE /\ task' = [task EXCEPT ![t] =
                          [IdleTask EXCEPT !.pc = "get", !.h = call.h,
                                           !.call = call]]
            /\ resp' = NoResp
            /\ UNCHANGED redis

\* `cached = await cache_get(cache_key)` returns and the handler returns
\* the cached value, or goes on to the Store; or the backend raises, and
\* nothing catches it.
CacheGet(t, ok) ==
    /\ task[t].pc = "get"
    /\ UNCHANGED << ws, rate, redis, nReq, written >>
    /\ LET cached == cache_get(redis, CacheKey(task[t].call))
       IN  IF ok /\ ~IsHit(cached)
           THEN /\ task' = [task EXCEPT ![t].pc = "store"]
                /\ resp' = NoResp
           ELSE /\ task' = [task EXCEPT ![t] = IdleTask]
                /\ resp' = IF ok
                           THEN Response(task[t], 200, "none", TRUE, FALSE,
                                         HitBody(cached),
                                         HitEvent(task[t].call,
                                                  HitBody(cached)))
                           ELSE Response(task[t], 500, "cache_get", FALSE,
                                         FALSE, NoBody, NoPub)

\* A handler that takes a failed query for a query without rows and goes
\* on with it.
StoreQuerySwallow(t, answer) ==
    /\ task[t].pc = "store"
    /\ UNCHANGED << ws, rate, redis, nReq, written >>
    /\ LET r == Shape(task[t].call, answer)
       IN  IF ~r.raises
           THEN /\ task' = [task EXCEPT ![t].pc = "set",
                                        ![t].body = r.value]
                /\ resp' = NoResp
           ELSE /\ task' = [task EXCEPT ![t] = IdleTask]
                /\ resp' = [Response(task[t], 500, "TypeError", FALSE, TRUE,
                                     NoBody, NoPub)
                               EXCEPT !.rows = answer]

\* The queries of the handler: the Store is only read, so the awaits of
\* one request's queries are one step. A query that raises, or a result
\* that cannot be built, ends the handler with the exception.
StoreQuery(t, answer) ==
    /\ task[t].pc = "store"
    /\ UNCHANGED << ws, rate, redis, nReq, written >>
    /\ LET r == Shape(task[t].call, answer)
       IN  IF answer # "error" /\ ~r.raises
           THEN /\ task' = [task EXCEPT ![t].pc = "set",
                                        ![t].body = r.value]
                /\ resp' = NoResp
           ELSE /\ task' = [task EXCEPT ![t] = IdleTask]
                /\ resp' = [Response(task[t], 500,
                                     IF answer = "error" THEN "store"
                                                         ELSE "TypeError",
                                     FALSE, TRUE, NoBody, NoPub)
                               EXCEPT !.rows = answer]

\* `await cache_set(cache_key, json.dumps(result), CACHE_TTLS[...])`
\* returns: query_bot goes on to publish, the other handlers return the
\* result; or the backend raises and nothing catches it.
CacheSet(t, ok) ==
    /\ task[t].pc = "set"
    /\ UNCHANGED << ws, rate, nReq >>
    /\ LET call == task[t].call
           key == CacheKey(call)
           value == JsonDumps(task[t].body)
           ttl == CacheTtl(call)
           tk == [task[t] EXCEPT
                     !.wrote = [key |-> key, value |-> value, ttl |-> ttl]]
       IN  IF ok
           THEN /\ redis' = cache_set(redis, key, value, ttl)
                /\ written' = [ k \in DOMAIN written \cup {key} |->
                                  IF k = key
                                  THEN [value |-> value, ttl |-> ttl,
                                        left |-> ttl]
                                  ELSE written[k] ]
                /\ IF call.h = "query_bot"
                   THEN /\ task' = [task EXCEPT ![t] =
                                      [tk EXCEPT !.pc = "pub"]]
                        /\ resp' = NoResp
                   ELSE /\ task' = [task EXCEPT ![t] = IdleTask]
                        /\ resp' = Response(tk, 200, "none", FALSE, TRUE,
                                            task[t].body, NoPub)
           ELSE /\ task' = [task EXCEPT ![t] = IdleTask]
                /\ resp' = Response(task[t], 500, "cache_set", FALSE, TRUE,
                                    NoBody, NoPub)
                /\ UNCHANGED << redis, written >>

\* `await r.publish("tower-ai-feed", ...)` of query_bot returns and the
\* handler returns the result; or publish raises and nothing catches it.
BotPublish(t, ok) ==
    /\ task[t].pc = "pub"
    /\ UNCHANGED << ws, rate, redis, nReq, written >>
    /\ task' = [task EXCEPT ![t] = IdleTask]
    /\ resp' = IF ok
               THEN Response(task[t], 200, "none", FALSE, TRUE,
                             task[t].body,
                             BotEvent(task[t].call, task[t].body))
               ELSE Response(task[t], 500, "publish", FALSE, TRUE, NoBody,
                             NoPub)

\* d seconds pass: the backend drops the keys whose time is up.
Tick(d) ==
    /\ redis' = Elapse(redis, d)
    /\ win' = IF win.left > d THEN [win EXCEPT !.left = @ - d] ELSE NoWindow
    /\ written' = [ k \in { x \in DOMAIN written : written[x].left > d } |->
                      [written[k] EXCEPT !.left = @ - d] ]
    /\ resp' = NoResp
    /\ UNCHANGED << ws, task, probe, ret, nReq >>

\* The limiter on its own: every call of a run is check_rate_limit for one
\* route and one identity, made by up to MaxTasks tasks, on a backend that
\* starts empty.
RateInit ==
    /\ WsInit
    /\ redis = << >>
    /\ task = [t \in Tasks |-> IdleTask]
    /\ probe \in Probes
    /\ win = NoWindow
    /\ ret = "none"
    /\ nReq = 0
    /\ resp = NoResp
    /\ written = << >>

RateNext ==
    \/ \E t \in Tasks, ok \in BOOLEAN : RlCall(t, ok)
    \/ \E t \in Tasks, ok \in BOOLEAN : RlExpire(t, ok)
    \/ Tick(TimeStep)

RateSpec == RateInit /\ [][RateNext]_vars

\* What the backend may hold when the first request of a run arrives:
\* nothing, or the counter of one caller of a rate-limited route that has
\* reached the route's limit in the current window.
Backends ==
    { << >> }
    \cup { RateKey(RatePath(c), RateIdentifier(c)) :>
               [val |-> RouteLimit(c).limit, ttl |-> RouteLimit(c).window] :
             c \in { x \in Calls : x.h \in RateLimited } }

\* The read handlers: up to MaxRequests requests, served by up to
\* MaxTasks tasks at a time.
HandlerInit ==
    /\ WsInit
    /\ redis \in Backends
    /\ task = [t \in Tasks |-> IdleTask]
    /\ probe = NoProbe
    /\ win = NoWindow
    /\ ret = "none"
    /\ nReq = 0
    /\ resp = NoResp
    /\ written = << >>

HandlerNext ==
    \/ \E t \in Tasks, call \in Calls, ok \in BOOLEAN : Request(t, call, ok)
    \/ \E t \in Tasks, ok \in BOOLEAN : RlExpire(t, ok)
    \/ \E t \in Tasks, ok \in BOOLEAN : CacheGet(t, ok)
    \/ \E t \in Tasks, answer \in StoreAnswers : StoreQuery(t, answer)
    \/ \E t \in Tasks, ok \in BOOLEAN : CacheSet(t, ok)
    \/ \E t \in Tasks, ok \in BOOLEAN : BotPublish(t, ok)
    \/ Tick(TimeStep)

HandlerSpec == HandlerInit /\ [][HandlerNext]_vars

\* The client protocol: the handlers of the connections, with an observer
\* that notes what each of their steps does.
ProtoInit == WsStart /\ hlast = NoStep /\ IntelInit

ProtoNext ==
    \/ \E c \in Conns, req \in Requests : HStart(c, req.tok, req.ch)
    \/ \E c \in Conns, ok \in BOOLEAN, sok \in BOOLEAN : HAccept(c, ok, sok)
    \/ \E c \in Conns, f \in Frames :
           \E ok \in AcceptOutcomes(f), sok \in SendOutcomes(f) :
               HRecv(c, f.type, f.channel, ok, sok)

ProtoSpec == ProtoInit /\ [][ProtoNext]_vars

\* ------------------------------------------- functions applied on their own
\* Everything but the note of the last application.
app ==
    << mgr, hnd, bus, bpc, bit, bhist, reg, taken, inbox, dcErr, dcNoop,
       hlast, intel >>

\* check_rate_limit, intelligence.py:137-147, called by one task at a
\* time on a backend that answers: the INCR, the EXPIRE of the call that
\* counted 1, and the value returned.
check_rate_limit(rd, path, identifier) ==
    LET r == CheckIncr(rd, path, identifier, TRUE)
    IN  [ rd |-> IF r.out = "expire" THEN EXPIRE(r.rd, r.key, r.window)
                 ELSE r.rd,
          ret |-> r.allowed ]

\* The floors and users of the calls below: two of each, to tell apart
\* what is shared between them and what is not.
CalcFloors == { 9, 16 }
Subjects == { "u1", "u2" }

\* The paths check_rate_limit is called with: the three the handlers pass
\* (lines 158, 309, 475), a route without a limit, and a path that holds
\* the text of two patterns.
CalcPaths ==
    { FloorPulsePath(f) : f \in CalcFloors }
    \cup { LivePath, BotPath, << "/api/community/network" >>,
           LivePath \o BotPath }

\* The identifiers of lines 158 and 309: the subject.
CalcIdentifiers == { << u >> : u \in Subjects }

\* What the backend may hold when the first call of a run is made:
\* nothing, or one counter the code has brought to its limit in the
\* current window.
CalcBackends ==
    { << >> }
    \cup { RateKey(RATE_LIMITS[i].pattern, id) :>
               [val |-> RATE_LIMITS[i].limit,
                ttl |-> RATE_LIMITS[i].window] :
             i \in 2..3, id \in CalcIdentifiers }

\* One more call of a run of check_rate_limit calls, all within one
\* window: the first one on the backend start, every other one on the
\* backend the call before left.
CalcRate(start, path, identifier) ==
    /\ calc.op \in { "none", "rate" }
    /\ Len(calc.hist) < MaxCalls
    /\ LET rd == IF calc.op = "rate" THEN calc.out.rd ELSE start
           r == check_rate_limit(rd, path, identifier)
       IN  calc' = [ op |-> "rate",
                     in |-> [path |-> path, identifier |-> identifier,
                             rd |-> rd],
                     out |-> r,
                     rd0 |-> IF calc.op = "rate" THEN calc.rd0 ELSE rd,
                     hist |-> Append(calc.hist,
                                     [path |-> path,
                                      identifier |-> identifier]) ]
    /\ UNCHANGED app

\* The requests of two callers: the floor pulse and the bot queries, by
\* each of the two users.
ShareCalls ==
    { [c EXCEPT !.sub = u] :
        c \in { x \in Calls : x.h \in { "get_floor_pulse", "query_bot" } },
        u \in Subjects }

\* One caller's request on an empty backend, answered from the Store and
\* cached, and then another caller's request up to its cache_get: the
\* rate check and the cache key of each, as the handlers compute them
\* (lines 158-165 and 475-485).
CalcShare(first, second) ==
    /\ calc = NoCalc
    /\ LET r1 == check_rate_limit(<< >>, RatePath(first),
                                  RateIdentifier(first))
           stored == Shape(first, "rows").value
           rd1 == cache_set(r1.rd, CacheKey(first), JsonDumps(stored),
                            CacheTtl(first))
           r2 == check_rate_limit(rd1, RatePath(second),
                                  RateIdentifier(second))
           cached == cache_get(r2.rd, CacheKey(second))
       IN  calc' = [NoCalc EXCEPT
                      !.op = "share",
                      !.in = [first |-> first, second |-> second],
                      !.out = [hit |-> IsHit(cached),
                               body |-> IF IsHit(cached) THEN HitBody(cached)
                                        ELSE NoBody,
                               stored |-> stored,
                               rd |-> r2.rd]]
    /\ UNCHANGED app

\* What the database does when test_db_connection runs: SELECT 1 gives 1,
\* or something else, or the pool or the query raises, or there is no
\* pool and the MockConnection answers.
DbOutcomes == { "one", "other", "raise", "mock" }

\* What Redis does when readiness_check runs: all three calls return, or
\* from_url, ping or close raises.
RedisOutcomes == { "ok", "from_url", "ping", "close" }

\* test_db_connection, database.py:76-86: `result == 1`, with every
\* exception caught and turned into False. MockConnection.fetchval gives
\* 1 for "SELECT 1" (database.py:118-119).
test_db_connection(db) ==
    [ raised |-> FALSE, value |-> (db \in { "one", "mock" }) ]

\* readiness_check, app.py:112-145: database is set when the awaited
\* test_db_connection() does not raise (its value is dropped), redis when
\* from_url, ping and close all return.
readiness_check(db, rds) ==
    LET database == ~test_db_connection(db).raised
        redis_ok == (rds = "ok")
    IN  [ database |-> database, redis |-> redis_ok,
          status |-> IF database /\ redis_ok THEN "ready" ELSE "not_ready",
          code |-> IF database /\ redis_ok THEN 200 ELSE 503 ]

\* GET /api/health/ready.
CalcReady(db, rds) ==
    /\ calc = NoCalc
    /\ calc' = [NoCalc EXCEPT !.op = "ready",
                              !.in = [db |-> db, rds |-> rds],
                              !.out = readiness_check(db, rds)]
    /\ UNCHANGED app

\* A Python float that is the quotient of two integers, in lowest terms.
RECURSIVE GCD(_, _)
GCD(a, b) == IF b = 0 THEN a ELSE GCD(b, a % b)

Ratio(n, d) == [num |-> n \div GCD(n, d), den |-> d \div GCD(n, d)]

\* A utilization that is not capped.
UtilizationUncapped(attendee_count, capacity) ==
    IF capacity > 0 THEN Ratio(attendee_count, capacity) ELSE Ratio(0, 1)

\* `min(attendee_count / room['capacity'], 1.0) if room['capacity'] > 0
\* else 0`, intelligence.py:213.
Utilization(attendee_count, capacity) ==
    IF capacity > 0
    THEN (IF attendee_count >= capacity THEN Ratio(1, 1)
          ELSE Ratio(attendee_count, capacity))
    ELSE Ratio(0, 1)

\* `{e['room_id']: e for e in events}`, line 187: of the events of one
\* room the last one stays.
EventsByRoom(events) ==
    [ id \in { events[j].room_id : j \in DOMAIN events } |->
        LET js == { j \in DOMAIN events : events[j].room_id = id }
        IN  events[CHOOSE j \in js : \A k \in js : k <= j] ]

\* The entry of one room, lines 190-227.
RoomPulse(room, events_by_room) ==
    IF room.id \in DOMAIN events_by_room
    THEN LET attendee_count == events_by_room[room.id].attendee_count
             utilization == Utilization(attendee_count, room.capacity)
         IN  [ roomId |-> room.id,
               event |-> [status |-> "live",
                          attendeeCount |-> attendee_count],
               liveMetrics |-> [attendeeCount |-> attendee_count,
                                capacity |-> room.capacity,
                                utilizationRate |-> utilization] ]
    ELSE [ roomId |-> room.id,
           event |-> None,
           liveMetrics |-> [attendeeCount |-> 0,
                            capacity |-> room.capacity,
                            utilizationRate |-> Ratio(0, 1)] ]

\* The result get_floor_pulse builds from the rows of its two queries,
\* lines 187-229.
floor_pulse(rooms, events) ==
    [ i \in DOMAIN rooms |-> RoomPulse(rooms[i], EventsByRoom(events)) ]

\* What the two queries may return: the rooms of the floor, each once,
\* with a capacity, and the live events in rooms of the floor, each with
\* the number of its attendees.
PulseRoomIds == { "r1", "r2" }
Capacities == { 0, 30, 60 }
AttendeeCounts == { 0, 45 }

SeqsUpTo(S, n) == UNION { [1..k -> S] : k \in 0..n }

PulseRooms ==
    { rs \in SeqsUpTo([id : PulseRoomIds, capacity : Capacities],
                      Cardinality(PulseRoomIds)) :
        \A i, j \in DOMAIN rs : rs[i].id = rs[j].id => i = j }

PulseEvents(rooms) ==
    SeqsUpTo([room_id : { rooms[i].id : i \in DOMAIN rooms },
              attendee_count : AttendeeCounts], MaxEvents)

\* get_floor_pulse on a cache miss, from the rows to the result.
CalcPulse(rooms, events) ==
    /\ calc = NoCalc
    /\ calc' = [NoCalc EXCEPT !.op = "pulse",
                              !.in = [rooms |-> rooms, events |-> events],
                              !.out = floor_pulse(rooms, events)]
    /\ UNCHANGED app

\* A broadcast that sends to every registered connection.
broadcast_everyone(ac, uc, channel, failing) ==
    LET r == disconnect_all(ac, uc, DOMAIN uc \cap failing)
    IN  [ delivered |-> DOMAIN uc \ failing, ac |-> r.ac, uc |-> r.uc ]

\* ConnectionManager.broadcast, websocket.py:88-101, when no other task
\* changes the channel's set while it runs: it sends to the members of
\* the channel, and disconnects those whose send raised (failing).
broadcast(ac, uc, channel, failing) ==
    IF channel \in DOMAIN ac
    THEN LET r == disconnect_all(ac, uc, ac[channel] \cap failing)
         IN  [ delivered |-> ac[channel] \ failing,
               ac |-> r.ac, uc |-> r.uc ]
    ELSE [ delivered |-> {}, ac |-> ac, uc |-> uc ]

\* The registries connect and disconnect lead to: some connections, each
\* in one or more channels.
Registries ==
    UNION { [cs -> SUBSET Channels \ {{}}] : cs \in SUBSET Conns }

\* active_connections of a registry.
MembersOf(uc) == [x \in Channels |-> { c \in DOMAIN uc : x \in uc[c] }]

\* manager.broadcast(channel, message) on a registry.
CalcBroadcast(uc, channel, failing) ==
    /\ calc = NoCalc
    /\ calc' = [NoCalc EXCEPT
                  !.op = "broadcast",
                  !.in = [ac |-> MembersOf(uc), uc |-> uc,
                          channel |-> channel, failing |-> failing],
                  !.out = broadcast(MembersOf(uc), uc, channel, failing)]
    /\ UNCHANGED app

CalcNext ==
    \/ \E start \in CalcBackends, path \in CalcPaths,
          identifier \in CalcIdentifiers :
           CalcRate(start, path, identifier)
    \/ \E first \in ShareCalls, second \in ShareCalls :
           CalcShare(first, second)
    \/ \E db \in DbOutcomes, rds \in RedisOutcomes : CalcReady(db, rds)
    \/ \E rooms \in PulseRooms : \E events \in PulseEvents(rooms) :
           CalcPulse(rooms, events)
    \/ \E uc \in Registries, channel \in Channels \cup {UnknownChannel} :
           \E failing \in SUBSET DOMAIN uc :
               CalcBroadcast(uc, channel, failing)

CalcSpec == Init /\ [][CalcNext]_vars

\* ------------------------------------------------------------- properties
Last(seq) == seq[Len(seq)]

Occurrences(seq, v) == Cardinality({ i \in 1..Len(seq) : seq[i] = v })

\* The step is the last one of a broadcast that was suspended in a send.
BroadcastEnds == bpc = "send" /\ bpc' # "send"

\* The connection whose send ends in this step, when that send failed.
FailedNow == { c \in {bcur} : inbox'[c] = inbox[c] }

\* The connection whose send ends in this step, when that send succeeded.
DeliveredNow == { c \in {bcur} : inbox'[c] # inbox[c] }

\* C1: in every reachable state, for every channel X and connection C, C is
\* in active_connections[X] if and only if X is in user_channels[C].
C1_MapsConsistent ==
    \A x \in Channels, c \in Conns :
        c \in active_connections[x]
            <=> (c \in DOMAIN user_channels /\ x \in user_channels[c])

\* C1 witness: one connection has joined two channels while another one has
\* been disconnected.
C1_Witness ==
    \E c \in Conns, d \in Conns :
        /\ c \in DOMAIN user_channels
        /\ Cardinality(user_channels[c]) >= 2
        /\ d \in gone

\* C2 as stated: when a broadcast of m on X ends, every connection that was
\* a member of X when it began, has not been disconnected and had no
\* failing send has received m exactly once.
C2_Original ==
    [][BroadcastEnds =>
         \A c \in (bStart \cap active_connections'[bch])
                    \ (disconnected \cup FailedNow) :
             Occurrences(inbox'[c], bmsg) = 1]_vars

\* C3: a connection for which disconnect has returned (and that has not
\* been registered again) is in no channel's member set and has no own
\* channel set, and a broadcast that began while it was in that condition
\* delivers nothing to it.
C3_DisconnectRemoves ==
    /\ [](\A c \in gone :
             /\ c \notin DOMAIN user_channels
             /\ \A x \in Channels : c \notin active_connections[x])
    /\ [][\A c \in Conns : inbox'[c] # inbox[c] => c \notin bNotReg]_vars

\* C3 witness: the last broadcast began while a connection was disconnected,
\* has returned, and delivered its message to another connection.
C3_Witness ==
    \E c \in Conns, d \in Conns :
        /\ c \in bNotReg
        /\ c \in gone
        /\ bStatus = "returned"
        /\ Len(inbox[d]) > 0
        /\ Last(inbox[d]) = bmsg
        /\ bmsg \notin { inbox[c][i] : i \in 1..Len(inbox[c]) }

\* C4: a disconnect of a connection that is not registered (a second
\* disconnect) raises nothing and leaves both maps as they were: in the
\* handler's disconnect the maps are unchanged, and in the clean-up loop of
\* broadcast the connection stays unregistered and nothing raises.
C4_DisconnectIdempotent ==
    [][\A c \in Conns \ DOMAIN user_channels :
          /\ (hpc[c] = "recv" /\ hpc'[c] = "closed")
                => (UNCHANGED mgr /\ ~dcErr')
          /\ (BroadcastEnds /\ c \in disconnected \cup FailedNow)
                => (c \notin DOMAIN user_channels' /\ ~dcErr'
                    /\ \A x \in Channels : c \notin active_connections'[x])
      ]_vars

\* C4 witness: disconnect has run on an unregistered connection.
C4_Witness == dcNoop /\ ~dcErr

\* C5 as stated: when a send failed during a broadcast, the broadcast
\* returns without raising, every other member has received the message,
\* and the failing connections are registered nowhere afterwards.
C5_Original ==
    [][(BroadcastEnds /\ disconnected \cup FailedNow # {}) =>
         /\ bStatus' = "returned"
         /\ \A f \in disconnected \cup FailedNow :
               /\ f \notin DOMAIN user_channels'
               /\ \A x \in Channels : f \notin active_connections'[x]
         /\ \A c \in (bStart \cap active_connections'[bch]) :
               c \in bDelivered \cup DeliveredNow]_vars

\* C6 as stated: a broadcast during which the membership of its channel
\* changed still ends without raising, with the message delivered to the
\* connections that were members when it began and still are.
C6_Original ==
    [][(BroadcastEnds /\ active_connections[bch] # bStart) =>
         /\ bStatus' = "returned"
         /\ (bStart \cap active_connections'[bch])
               \subseteq (bDelivered \cup DeliveredNow)]_vars

\* C7 as stated: while the send to a slow connection is pending, every other
\* member still gets the message (or leaves, or the broadcast ends), and
\* the entries waiting on the bus are eventually taken.
C7_Original ==
    /\ \A c \in Conns \ SlowConns :
          (bpc = "send" /\ c \in bStart /\ c \notin bDelivered)
             ~> (bpc # "send" \/ c \in bDelivered
                 \/ c \notin active_connections[bch])
    /\ (Len(busq) > 0) ~> (Len(busq) = 0)

\* C8: the listener calls broadcast once per data message it takes from the
\* bus and never for another entry, with the channel and the payload of
\* that message; what a client receives in that broadcast is that payload.
C8_ForwardVerbatim ==
    /\ bcalls = nData
    /\ bcalls > 0 => (bch = lastData.channel /\ bmsg = lastData.data)
    /\ \A c \in bDelivered :
          /\ Last(inbox[c]) = lastData.data
          /\ c \in DOMAIN user_channels => lastData.channel \in user_channels[c]

\* C8 witness: the subscription confirmations have been taken, and a client
\* of floor-pulse-9 has received the payload published there.
C8_Witness ==
    /\ nData > 0
    /\ Len(busq) = 0
    /\ lastData.channel = "floor-pulse-9"
    /\ \E c \in Conns :
          /\ Len(inbox[c]) > 0
          /\ Last(inbox[c]) = lastData.data

\* C9 as stated: the listener task never ends.
C9_Original == bpc # "dead"

\* C10: every connection receives the payloads in the order in which the
\* bus delivered them to the listener (payloads are numbered in that
\* order), and a broadcast begins only when the previous one has ended.
C10_Ordering ==
    /\ [](\A c \in Conns : \A i \in 1..Len(inbox[c]), j \in 1..Len(inbox[c]) :
             i < j => inbox[c][i] < inbox[c][j])
    /\ [][bcalls' # bcalls => bpc = "listen"]_vars

\* C10 witness: one connection has received two payloads.
C10_Witness == \E c \in Conns : Len(inbox[c]) >= 2

\* ------------------------------------------- properties of the limiter
\* The key of the counter the run's calls count in.
ProbeKey == RateKey(probe.path, probe.identifier)

\* No call of check_rate_limit is between its incr and its expire.
NoCallInFlight == \A t \in Tasks : task[t].pc = "idle"

\* C11: for each rate-limited route (floor pulse 180, live analytics 240,
\* bot query 15 calls per 60 s) and every identity, the calls of one window
\* are answered True up to the limit and False past it: the n-th call of
\* the window returns True exactly when n is at most the limit (the 181st
\* floor-pulse call of one user within 60 s returns False).
\* (Stated for the calls after which the backend's counter, when there is
\* one, expires with the window and has counted no call of an earlier
\* window: C13 and C14 are about the others.)
C11_Original ==
    [][ (/\ probe # NoProbe
         /\ win'.calls > 0
         /\ win'.calls # win.calls
         /\ ProbeKey \in DOMAIN redis'
               => /\ redis'[ProbeKey].ttl = win'.left
                  /\ redis'[ProbeKey].val <= win'.calls)
            => ((ret' = "true") <=> (win'.calls <= ProbeLimit.limit)) ]_vars

\* C13: once window_seconds have passed since the first counted call of a
\* window, the key's counter is reset, and the next call is counted as 1
\* and returns True.
C13_Original ==
    (probe # NoProbe /\ NoCallInFlight)
        => /\ (win.left = 0 => ProbeKey \notin DOMAIN redis)
           /\ (win.calls = 1 /\ ret # "raise")
                 => /\ ret = "true"
                    /\ (ProbeKey \in DOMAIN redis
                           => redis[ProbeKey].val = 1)

\* C14: whatever the interleaving of the calls on a key, and also when a
\* call failed between its increment and its expire, a counter of 1 or
\* more has an expiry, and the expiry is not later than window_seconds
\* after the first increment of the window.
C14_Original ==
    (probe # NoProbe /\ NoCallInFlight)
        => \A k \in DOMAIN redis :
               redis[k].val >= 1
                  => /\ redis[k].ttl # NoExpiry
                     /\ redis[k].ttl <= win.left

\* C16: when the backend raises on the increment or on the expire,
\* check_rate_limit returns True; it never raises.
C16_Original == ret # "raise"

\* ------------------------------------------- properties of the handlers
\* The cache keys of the run's requests.
CacheKeys == { CacheKey(c) : c \in Calls }

\* A task whose handler is past its rate-limit check.
PastCheck(t) == task[t].pc \in { "get", "store", "set", "pub" }

\* C12: a rate-limited handler (get_floor_pulse, get_live_analytics,
\* query_bot) answers 429 "Rate limit exceeded" whenever the counter of
\* its caller is past the route's limit after the request's increment,
\* that is, whenever the counter had reached the limit when the request
\* arrived: such a request never gets past the check.
C12_Original ==
    /\ \A t \in Tasks : PastCheck(t) => ~task[t].over
    /\ (resp.over /\ resp.err # "rate")
          => (resp.status = 429 /\ resp.err = "Rate limit exceeded")

\* C15: when the cache backend raises, cache_get is a miss and cache_set
\* drops the write: no request ends with the exception of a cache call.
C15_Original == resp.err \notin { "cache_get", "cache_set" }

\* C17: cache_get(k) returns the value of the last cache_set(k, v, ttl)
\* as long as less than ttl seconds have passed since that call, and a
\* miss once ttl seconds have passed (and when k was never set).
C17_RoundTrip ==
    \A k \in CacheKeys :
        cache_get(redis, k) = IF k \in DOMAIN written THEN written[k].value
                                                      ELSE None

\* C17 witness: time has passed since the last cache_set of a key, less
\* than its TTL, and cache_get returns the value.
C17_Witness ==
    \E k \in CacheKeys :
        /\ k \in DOMAIN written
        /\ written[k].left < written[k].ttl
        /\ cache_get(redis, k) = written[k].value

\* C18: a handler that finds its key in the cache returns the cached value
\* as it was stored, and neither queries the Store nor writes the cache.
C18_HitVerbatim ==
    resp.hit
       => /\ resp.status = 200
          /\ CacheKey(resp.call) \in DOMAIN written
          /\ JsonDumps(resp.body) = written[CacheKey(resp.call)].value
          /\ ~resp.queried
          /\ resp.wrote = NoWrite

\* C18 witness: a request was answered from the cache.
C18_Witness == resp.hit /\ resp.body # NoBody

\* C19: a handler that misses the cache and gets the Store's answer writes
\* the result once, under the key it looked up and with its category's TTL
\* (floor pulse 30, network 300, live analytics 15, bot 30, revenue 60),
\* and returns that result.
C19_Original ==
    (resp.queried /\ resp.err \notin { "store", "cache_set", "publish" })
       => /\ resp.status = 200
          /\ resp.wrote = [ key |-> CacheKey(resp.call),
                            value |-> JsonDumps(resp.body),
                            ttl |-> CacheTtl(resp.call) ]

\* C20 as stated: every bot query that is answered has published, on
\* "tower-ai-feed", an event of type "bot_response" with the query's chatId
\* and the response it returns.
C20_Original ==
    (resp.call.h = "query_bot" /\ resp.status = 200)
       => /\ resp.pub.channel = "tower-ai-feed"
          /\ JsonLoads(resp.pub.message)
                = [ type |-> "bot_response", chatId |-> resp.call.chatId,
                    response |-> resp.body ]

\* C20, amended: every bot query that is answered from the Store (not
\* from the cache) has published, on "tower-ai-feed", an event of type
\* "bot_response" with the query's chatId and the response it returns.
C20_PublishOnMiss ==
    (resp.call.h = "query_bot" /\ resp.status = 200 /\ ~resp.hit)
       => /\ resp.pub.channel = "tower-ai-feed"
          /\ JsonLoads(resp.pub.message)
                = [ type |-> "bot_response", chatId |-> resp.call.chatId,
                    response |-> resp.body ]

\* C20 witness: a bot query was answered from the Store.
C20_Witness ==
    resp.call.h = "query_bot" /\ resp.status = 200 /\ ~resp.hit

\* C21: when the publish of a bot query fails, the request still succeeds
\* and returns the result it has written to the cache: every bot query
\* that got as far as its cache write is answered 200 with that result.
C21_Original ==
    (resp.call.h = "query_bot" /\ resp.wrote # NoWrite)
       => /\ resp.status = 200
          /\ JsonDumps(resp.body) = resp.wrote.value

\* C29: when the Store's queries give no rows (the MockConnection
\* fallback), every read handler, and the bot query in each of its
\* branches, returns a response built from no rows; none of them raises.
C29_Original ==
    resp.rows = "empty"
       => /\ resp.status = 200
          /\ resp.err = "none"
          /\ resp.body.rows = "empty"

\* C30: a request whose Store query raises fails with that error; the
\* handler ends there (it does not query again), has written nothing to
\* the cache and has published nothing.
C30_StoreErrorFails ==
    /\ [](resp.rows = "error"
             => /\ resp.status = 500
                /\ resp.err = "store"
                /\ resp.wrote = NoWrite
                /\ resp.pub = NoPub)
    /\ [][resp'.rows = "error"
             => /\ redis' = redis
                /\ written' = written
                /\ \A t \in Tasks :
                      task'[t] # task[t] => task'[t] = IdleTask]_vars

\* C30 witness: a bot query has failed with the Store's error.
C30_Witness ==
    /\ resp.err = "store"
    /\ resp.call.h = "query_bot"
    /\ resp.queried

\* --------------------------------- properties of the client protocol
\* C22: the step in which a connection is accepted registers it in its
\* channel and then sends it one message, {type: "connected"} with that
\* channel and the user of the token, and no step before has sent it
\* anything; afterwards a step that handles a ping sends exactly one
\* message, {type: "pong"}, to the connection the ping came from, and
\* changes neither map of the manager.
C22_Protocol ==
    /\ [](hlast.op = "start" => hlast.sent = << >>)
    /\ []((hlast.op = "accept" /\ ~hlast.ended)
             => /\ Len(hlast.sent) = 1
                /\ hlast.sent[1].to = hlast.conn
                /\ JsonLoads(hlast.sent[1].text).type = "connected"
                /\ JsonLoads(hlast.sent[1].text).channel = hlast.channel
                /\ JsonLoads(hlast.sent[1].text).user = "u1"
                /\ hlast.conn \in active_connections[hlast.channel]
                /\ hlast.channel \in user_channels[hlast.conn])
    /\ []((hlast.op = "recv" /\ hlast.type = "ping")
             => /\ Len(hlast.sent) = 1
                /\ hlast.sent[1].to = hlast.conn
                /\ JsonLoads(hlast.sent[1].text) = [type |-> "pong"]
                /\ ~hlast.ended)
    /\ [][(hlast'.op = "recv" /\ hlast'.type = "ping")
             => UNCHANGED mgr]_vars

\* C22 witness: a connection of the floor channel has got its pong while
\* another connection is registered.
C22_Witness ==
    /\ hlast.op = "recv"
    /\ hlast.type = "ping"
    /\ hlast.sent[1].ok
    /\ endpoint[hlast.conn] = "floor"
    /\ \E d \in DOMAIN user_channels : d # hlast.conn

\* The channels of a connection, none when it is not registered.
ChannelsOf(uc, c) == IF c \in DOMAIN uc THEN uc[c] ELSE {}

\* The step handles a subscribe frame that names the channel ch.
SubscribeStep(ch) ==
    /\ hlast'.op = "recv"
    /\ hlast'.type = "subscribe"
    /\ hlast'.channel = ch

\* C23: a step that handles {type: "subscribe", channel} with a recognized
\* channel name adds the connection to that channel and keeps the channels
\* it had, sends it {type: "subscribed", channel}, and leaves the handler
\* in its receive loop, the connection registered in both channels (so
\* that broadcasts on both reach it).
C23_Original ==
    [][\A ch \in Channels :
         SubscribeStep(ch)
            => LET c == hlast'.conn
               IN  /\ ChannelsOf(user_channels', c)
                         = ChannelsOf(user_channels, c) \cup {ch}
                   /\ \A x \in ChannelsOf(user_channels', c) :
                         c \in active_connections'[x]
                   /\ Len(hlast'.sent) = 1
                   /\ hlast'.sent[1].to = c
                   /\ JsonLoads(hlast'.sent[1].text)
                         = [type |-> "subscribed", channel |-> ch]
                   /\ ~hlast'.ended
                   /\ hpc'[c] = "recv"]_vars

\* C24: a step that handles a subscribe frame with a channel name the
\* manager does not know changes neither map, adds no channel, sends no
\* {type: "subscribed"} for that name, and does not end the handler or
\* drop the channels the connection has.
C24_Original ==
    [][SubscribeStep(UnknownChannel)
          => /\ UNCHANGED mgr
             /\ DOMAIN active_connections' = DOMAIN active_connections
             /\ \A i \in 1..Len(hlast'.sent) :
                   JsonLoads(hlast'.sent[i].text)
                      # [type |-> "subscribed", channel |-> UnknownChannel]
             /\ ~hlast'.ended
             /\ hpc'[hlast'.conn] = "recv"]_vars

\* C25: websocket.accept is called once per connection, by the connect of
\* the handshake: no step of the receive loop (no subscribe) calls it.
C25_Original == hlast.op = "recv" => hlast.accepts = 0

\* C28 (individual sends): when a personal send (welcome, pong,
\* subscribed) fails, the handler does not end with the error, and the
\* connection is registered in no channel afterwards.
C28_Original ==
    \A i \in 1..Len(hlast.sent) :
        ~hlast.sent[i].ok
           => /\ hpc[hlast.conn] # "closed"
              /\ hlast.conn \notin DOMAIN user_channels
              /\ \A x \in Channels : hlast.conn \notin active_connections[x]

\* C26: a connection that has been disconnected (by its handler, or by the
\* clean-up of a broadcast in which the send to it failed) is never
\* registered again: no step makes it a member of a channel.
C26_Original ==
    [][\A c \in gone :
          /\ c \notin DOMAIN user_channels'
          /\ \A x \in Channels : c \notin active_connections'[x]]_vars

\* The request of the handshake is one the endpoints reject: no valid
\* token, or a floor that is not one of 2, 4, 9, 15 and 16.
Rejected(step) ==
    \/ step.type # "ok"
    \/ step.channel \notin { "tower-ai-feed", "floor-pulse-2", "floor-pulse-4",
                             "floor-pulse-9", "floor-pulse-15",
                             "floor-pulse-16" }

\* C27: a handshake with a missing token, an invalid token or a floor
\* outside {2, 4, 9, 15, 16} ends the handler without a call of
\* websocket.accept and leaves both maps of the manager as they were.
C27_RejectedHandshake ==
    /\ []((hlast.op = "start" /\ Rejected(hlast))
             => /\ hlast.accepts = 0
                /\ hlast.sent = << >>
                /\ hlast.ended
                /\ hpc[hlast.conn] = "closed")
    /\ [][(hlast'.op = "start" /\ Rejected(hlast')) => UNCHANGED mgr]_vars

\* C27 witness: a request for a floor that does not exist was rejected
\* while another connection is registered.
C27_Witness ==
    /\ hlast.op = "start"
    /\ hlast.type = "ok"
    /\ hlast.channel = UnknownChannel
    /\ hpc[hlast.conn] = "closed"
    /\ DOMAIN user_channels # {}

\* The data messages on the bus that the listener has yet to take.
OnBus(q) == { q[i] : i \in { j \in DOMAIN q : q[j].type = "message" } }

\* C33: every payload a client receives through a broadcast on channel X
\* was published on the bus on channel X before: it is delivered by the
\* broadcast the listener runs, with the channel and the payload of the
\* entry the listener took from the bus, and an entry comes onto the bus
\* by a publish only. No step of a query handler touches the manager's
\* maps or a client's inbox.
C33_BridgeSolePath ==
    [][/\ \A c \in Conns :
            inbox'[c] # inbox[c]
               => /\ bpc = "send"
                  /\ inbox'[c] = Append(inbox[c], bmsg)
                  /\ lastData = [type |-> "message", channel |-> bch,
                                 data |-> bmsg]
       /\ lastData' # lastData => lastData' \in OnBus(busq)
       /\ busq' # busq
             => \A e \in OnBus(busq') \ OnBus(busq) :
                   /\ nPub' = nPub + 1
                   /\ e.data = nPub'
                   /\ e.channel \in Channels
                   /\ busq' = Append(busq, e)
       /\ (task' # task \/ resp' # resp) => UNCHANGED << mgr, inbox >>]_vars

\* C33 witness: two payloads were published, and a client has received
\* the second of them from the broadcast of the entry the listener took.
C33_Witness ==
    /\ nPub = 2
    /\ lastData.data = 2
    /\ \E c \in Conns : Len(inbox[c]) > 0 /\ Last(inbox[c]) = 2

\* C36: a connection whose handler has ended is a member of no channel and
\* has no entry in user_channels.
C36_EndedHandlerGone ==
    \A c \in Conns :
        hpc[c] = "closed"
           => /\ c \notin DOMAIN user_channels
              /\ \A x \in Channels : c \notin active_connections[x]

\* C36 witness: a handler has ended by a disconnect of a connection that
\* was registered, while another connection is registered.
C36_Witness ==
    \E c \in gone :
        /\ hpc[c] = "closed"
        /\ DOMAIN user_channels # {}

\* C37: a request the limiter rejects (429) has read no cache, queried no
\* Store, written no cache entry and published nothing, and its step
\* changes nothing but the counter of its own rate key; and a request of a
\* rate-limited handler that is answered from the cache has incremented
\* its caller's counter.
C37_Original ==
    /\ [][resp'.status = 429
            => LET key == RateKey(RatePath(resp'.call),
                                  RateIdentifier(resp'.call))
               IN  /\ ~resp'.hit
                   /\ ~resp'.queried
                   /\ resp'.wrote = NoWrite
                   /\ resp'.pub = NoPub
                   /\ written' = written
                   /\ \A t \in Tasks :
                         task'[t] # task[t] => task[t].pc = "expire"
                   /\ DOMAIN redis' \ {key} = DOMAIN redis \ {key}
                   /\ \A k \in DOMAIN redis \ {key} : redis'[k] = redis[k]]_vars
    /\ []((resp.hit /\ resp.call.h \in RateLimited) => resp.counted)

\* C39: a step that ends a bot query with an answer from the cache
\* publishes nothing; a step that publishes an event is the last step of
\* a bot query that missed the cache, queried the Store and has written its
\* cache entry before (so there is at most one event per request, after
\* the cache write).
C39_PublishOnlyOnMiss ==
    [][/\ (resp'.hit /\ resp'.call.h = "query_bot") => resp'.pub = NoPub
       /\ resp'.pub # NoPub
             => /\ resp'.call.h = "query_bot"
                /\ ~resp'.hit
                /\ resp'.queried
                /\ resp'.wrote.key = CacheKey(resp'.call)
                /\ resp'.wrote.value = JsonDumps(resp'.body)
                /\ \E t \in Tasks :
                      /\ task[t].pc = "pub"
                      /\ task[t].wrote = resp'.wrote
                      /\ task'[t] = IdleTask
                      /\ \A o \in Tasks \ {t} : task'[o] = task[o]]_vars

\* C39 witness: a bot query was answered from the cache, which holds the
\* answer an earlier bot query wrote.
C39_Witness ==
    /\ resp.hit
    /\ resp.call.h = "query_bot"
    /\ resp.status = 200
    /\ CacheKey(resp.call) \in DOMAIN written

\* The path is one of the floor-pulse route, "/api/floors/<id>/pulse".
IsFloorPulse(path) ==
    /\ Len(path) = 3
    /\ path[1] = "/api/floors/"
    /\ path[3] = "/pulse"

\* The keys whose counter the last call incremented, by one.
Incremented ==
    { k \in DOMAIN calc.out.rd :
        calc.out.rd[k].val = CountOf(calc.in.rd, k) + 1 }

\* C31: the floor-pulse requests of one identity, whatever their floors,
\* increment one shared counter: after each of them that counter has
\* grown by the number of floor-pulse calls the identity has made.
C31_Original ==
    (calc.op = "rate" /\ IsFloorPulse(calc.in.path))
       => LET mine == { i \in DOMAIN calc.hist :
                          /\ IsFloorPulse(calc.hist[i].path)
                          /\ calc.hist[i].identifier = calc.in.identifier }
          IN  \E k \in Incremented :
                 calc.out.rd[k].val - CountOf(calc.rd0, k) = Cardinality(mine)

\* The path is an instance of the pattern: piece by piece the same, with
\* "*" standing for one path segment.
GlobMatch(pattern, path) ==
    /\ Len(pattern) = Len(path)
    /\ \A n \in DOMAIN pattern : pattern[n] \in { "*", path[n] }

\* C32: a call on a path that matches no pattern returns True and leaves
\* the backend as it was; a call on a path that matches a pattern
\* increments exactly one counter, once, arms its expiry with the window
\* of the first matching pattern when it counted 1, changes nothing else,
\* and returns whether the count is within that pattern's limit.
C32_Original ==
    calc.op = "rate"
       => LET m == { i \in DOMAIN RATE_LIMITS :
                       GlobMatch(RATE_LIMITS[i].pattern, calc.in.path) }
              first == CHOOSE i \in m : \A j \in m : i <= j
          IN  IF m = {}
              THEN /\ calc.out.ret
                   /\ calc.out.rd = calc.in.rd
              ELSE /\ Cardinality(Incremented) = 1
                   /\ \A k \in Incremented :
                         /\ calc.out.ret
                               = (calc.out.rd[k].val
                                     <= RATE_LIMITS[first].limit)
                         /\ calc.out.rd[k].val = 1
                               => calc.out.rd[k].ttl
                                     = RATE_LIMITS[first].window
                         /\ DOMAIN calc.out.rd = DOMAIN calc.in.rd \cup {k}
                         /\ \A o \in DOMAIN calc.in.rd \ {k} :
                               calc.out.rd[o] = calc.in.rd[o]

\* C34: when a caller's request follows the request of a caller with
\* another subject, it is not answered from the cache entry the other one
\* wrote, and no rate counter has counted both of them.
C34_Original ==
    (calc.op = "share" /\ calc.in.first.sub # calc.in.second.sub)
       => /\ ~calc.out.hit
          /\ \A k \in DOMAIN calc.out.rd :
                k[1] = "rate:" => calc.out.rd[k].val = 1

\* C35: broadcast(X, m) delivers only to members of X, never to a
\* connection that is registered in other channels only, and on a channel
\* the manager does not know it delivers to nobody and leaves both maps as
\* they were.
C35_ChannelIsolation ==
    calc.op = "broadcast"
       => /\ \A c \in calc.out.delivered :
                /\ c \in DOMAIN calc.in.uc
                /\ calc.in.channel \in calc.in.uc[c]
          /\ calc.in.channel
                \notin { "tower-ai-feed", "floor-pulse-2", "floor-pulse-4",
                         "floor-pulse-9", "floor-pulse-15", "floor-pulse-16" }
                => /\ calc.out.delivered = {}
                   /\ calc.out.ac = calc.in.ac
                   /\ calc.out.uc = calc.in.uc

\* C35 witness: a broadcast has delivered to a member of its channel while
\* another connection was registered in another channel only.
C35_Witness ==
    /\ calc.op = "broadcast"
    /\ calc.out.delivered # {}
    /\ \E c \in DOMAIN calc.in.uc : calc.in.channel \notin calc.in.uc[c]

\* C35, with the handlers running between the sends of a broadcast: a
\* payload reaches only a connection the iteration over the channel's set
\* has yielded, which is still a member of the channel or has been
\* disconnected since, and never one that is registered in other channels
\* only.
C35_Interleaved ==
    [][\A c \in Conns :
          inbox'[c] # inbox[c]
             => /\ c \in bSeen
                /\ \/ c \in active_connections[bch]
                   \/ c \notin DOMAIN user_channels]_vars

\* C38: readiness_check reports database = true only when
\* test_db_connection succeeded (SELECT 1 gave 1) and redis = true only
\* when the ping succeeded; it answers "ready" with 200 when both checks
\* succeeded and "not_ready" with 503 otherwise.
C38_Original ==
    calc.op = "ready"
       => LET db_ok == calc.in.db \in { "one", "mock" }
              ping_ok == calc.in.rds \in { "ok", "close" }
              redis_ok == calc.in.rds = "ok"
          IN  /\ calc.out.database => db_ok
              /\ calc.out.redis => ping_ok
              /\ IF db_ok /\ redis_ok
                 THEN calc.out.status = "ready" /\ calc.out.code = 200
                 ELSE calc.out.status = "not_ready" /\ calc.out.code = 503

\* C40: the result has one entry per room the Store returned, in their
\* order; a room without a live event has event None, attendeeCount 0 and
\* utilizationRate 0; a room with one has the attendee count of an event
\* of the room, in the event and in liveMetrics, and utilizationRate
\* attendees / capacity, 1 when that is more, 0 when the capacity is 0;
\* 45 of 60 is 3/4.
C40_FloorPulseShape ==
    calc.op = "pulse"
       => LET rooms == calc.in.rooms
              events == calc.in.events
              result == calc.out
          IN  /\ Len(result) = Len(rooms)
              /\ \A i \in DOMAIN rooms :
                    LET live == { j \in DOMAIN events :
                                    events[j].room_id = rooms[i].id }
                        metrics == result[i].liveMetrics
                        util == metrics.utilizationRate
                        cap == rooms[i].capacity
                    IN  /\ result[i].roomId = rooms[i].id
                        /\ util.den > 0
                        /\ IF live = {}
                           THEN /\ result[i].event = None
                                /\ metrics.attendeeCount = 0
                                /\ util.num = 0
                           ELSE \E j \in live :
                                  LET n == events[j].attendee_count
                                  IN  /\ result[i].event.attendeeCount = n
                                      /\ metrics.attendeeCount = n
                                      /\ IF cap = 0 THEN util.num = 0
                                         ELSE IF n >= cap
                                         THEN util.num = util.den
                                         ELSE util.num * cap = n * util.den
                                      /\ (n = 45 /\ cap = 60)
                                            => util = [num |-> 3, den |-> 4]

\* C40 witness: of two rooms one has no live event and one, of capacity
\* 60, has an event with 45 attendees; its utilizationRate is 3/4.
C40_Witness ==
    /\ calc.op = "pulse"
    /\ Len(calc.out) = 2
    /\ \E i, j \in DOMAIN calc.out :
          /\ calc.out[i].event = None
          /\ calc.out[j].event # None
          /\ calc.out[j].liveMetrics.attendeeCount = 45
          /\ calc.out[j].liveMetrics.capacity = 60
          /\ calc.out[j].liveMetrics.utilizationRate = [num |-> 3, den |-> 4]

====
